---- MODULE Spec2Model ----
(***************************************************************************)
(* The validation and routing logic of InsuranceClaimsAgent (src/agent.py) *)
(* as a state machine: an extracted record is validated and routed, either *)
(* through process_claim or by calling route_claim directly.               *)
(*                                                                         *)
(* Python values are tagged records: None, str, number, dict, list.  A str *)
(* is a tuple of one-character strings, so that lower(), the `in`          *)
(* substring test, join and the currency format are computed character by  *)
(* character.  Money is held in cents (24999.99 is 2499999).  A raised     *)
(* exception is the outcome [exc |-> name] of a call.                      *)
(*                                                                         *)
(* BatchProcessor (src/batch_process.py) is a second state machine over    *)
(* the same operators: process_directory step by step, the output          *)
(* directory as a map from file name to content, and the clock's second,   *)
(* which is all a file name holds.                                         *)
(***************************************************************************)
EXTENDS Integers, Sequences, FiniteSets, TLC

VARIABLES
    entry,            \* the method called: "process_claim", "route_claim" or
                      \* "process_directory"
    extracted_data,   \* the record extract_fields returned (json.loads of the reply)
    missing_fields,   \* validate_fields' result, or the caller's argument
    routing_info,     \* route_claim's result
    raised,           \* the exception that left the call, "" when none
    pc,               \* the call to make next ("validate", "route"), "done", or
                      \* the call that raised ("raised_validate", "raised_route"), or
                      \* the print of process_claim that raised ("raised_print_validate"
                      \* line 211, "raised_print_route" line 215, "raised_print_routed"
                      \* line 229)
    \* BatchProcessor (src/batch_process.py) and what it writes
    stats,            \* self.stats
    results,          \* self.results
    call,             \* how many calls of process_directory were made
    all_files,        \* the files the current call enumerated (the i-th is named i)
    idx,              \* the place in all_files of the file the loop is at
    result,           \* process_claim's result for that file
    error,            \* str(e) of the exception the except clause caught
    summary,          \* the summary the last _generate_summary_report built
    output_dir,       \* the files of the output directory, by name
    dir_exists,       \* whether the output directory exists
    clock,            \* the second datetime.now() is in
    bpc               \* where process_directory is: "idle" (not in a call),
                      \* "loop", "save", "track", "except", "summary", "raised"

claim_vars == <<entry, extracted_data, missing_fields, routing_info, raised, pc>>

batch_vars ==
    <<stats, results, call, all_files, idx, result, error, summary, output_dir,
      dir_exists, clock, bpc>>

vars == <<claim_vars, batch_vars>>

(***************************************************************************)
(* Python values                                                           *)
(***************************************************************************)
None == [t |-> "None"]

Str(s) == [t |-> "str", v |-> s]

Num(cents) == [t |-> "num", v |-> cents]

Dict(f) == [t |-> "dict", v |-> f]

List(s) == [t |-> "list", v |-> s]

EmptyDict == Dict([k \in {} |-> None])

\* The outcome of a call: a returned value, or an exception.
Return(value) == [exc |-> "", ret |-> value]

Raise(name) == [exc |-> name]

Raises(outcome) == outcome.exc # ""

\* bool(x): None, "", 0, {} and [] are falsy.
Truthy(x) ==
    CASE x.t = "None" -> FALSE
      [] x.t = "str"  -> Len(x.v) > 0
      [] x.t = "num"  -> x.v # 0
      [] x.t = "dict" -> DOMAIN x.v # {}
      [] x.t = "list" -> Len(x.v) > 0

\* a or b
Or(a, b) == IF Truthy(a) THEN a ELSE b

\* o.get(key, default) on the outcome o of the expression before it: only a
\* dict has get; None.get and "".get raise AttributeError.
Get(o, key, default) ==
    IF Raises(o) THEN o
    ELSE IF o.ret.t # "dict" THEN Raise("AttributeError")
    ELSE IF key \in DOMAIN o.ret.v THEN Return(o.ret.v[key])
    ELSE Return(default)

(***************************************************************************)
(* str operations                                                          *)
(***************************************************************************)
\* A character outside ASCII is written by its code point, "U+00C9".  The
\* strs of the model are made of ASCII and of the characters named here.
UpperCase ==
    <<"A","B","C","D","E","F","G","H","I","J","K","L","M","N","O","P","Q","R","S",
      "T","U","V","W","X","Y","Z">> \o <<"U+00C9", "U+00C4", "U+0416", "U+212A">>

\* The lower() of each: U+212A KELVIN SIGN becomes the ASCII k.
LowerCase ==
    <<"a","b","c","d","e","f","g","h","i","j","k","l","m","n","o","p","q","r","s",
      "t","u","v","w","x","y","z">> \o <<"U+00E9", "U+00E4", "U+0436", "k">>

CapitalSigma == "U+03A3"

SmallSigma == "U+03C3"

FinalSmallSigma == "U+03C2"

CapitalIWithDot == "U+0130"

CombiningDot == "U+0307"

Range(s) == { s[i] : i \in 1..Len(s) }

\* Unicode's Cased and Case_Ignorable, on the characters of the model.
Cased ==
    Range(UpperCase) \cup Range(LowerCase)
        \cup {CapitalSigma, SmallSigma, FinalSmallSigma, CapitalIWithDot}

\* The grave accent is written by its code point too.
GraveAccent == "U+0060"

CaseIgnorable == {"'", ".", ":", "^", GraveAccent, CombiningDot}

\* The lower() of one character, which can be two: U+0130 becomes i and
\* U+0307.
LowerChar(c) ==
    IF c = CapitalIWithDot THEN <<"i", CombiningDot>>
    ELSE IF \E i \in 1..Len(UpperCase) : UpperCase[i] = c
    THEN <<LowerCase[CHOOSE i \in 1..Len(UpperCase) : UpperCase[i] = c]>>
    ELSE <<c>>

\* The capital sigma at place i ends a word: a cased character stands before
\* it and none after it, case-ignorable characters apart.
FinalSigma(s, i) ==
    LET before == { j \in 1..(i - 1) : s[j] \notin CaseIgnorable }
        after  == { j \in (i + 1)..Len(s) : s[j] \notin CaseIgnorable }
    IN  /\ before # {}
        /\ s[CHOOSE j \in before : \A k \in before : k <= j] \in Cased
        /\ \/ after = {}
           \/ s[CHOOSE j \in after : \A k \in after : j <= k] \notin Cased

RECURSIVE LowerFrom(_, _)
LowerFrom(s, i) ==
    IF i > Len(s) THEN <<>>
    ELSE (IF s[i] = CapitalSigma
          THEN <<IF FinalSigma(s, i) THEN FinalSmallSigma ELSE SmallSigma>>
          ELSE LowerChar(s[i])) \o LowerFrom(s, i + 1)

\* s.lower()
Lower(s) == LowerFrom(s, 1)

\* o.lower() on the outcome o of the expression before it: only a str has lower.
LowerOf(o) ==
    IF Raises(o) THEN o
    ELSE IF o.ret.t # "str" THEN Raise("AttributeError")
    ELSE Return(Str(Lower(o.ret.v)))

\* word in s
Contains(s, word) ==
    \E i \in 0..(Len(s) - Len(word)) : SubSeq(s, i + 1, i + Len(word)) = word

RECURSIVE Join(_, _)
\* sep.join(items)
Join(sep, items) ==
    IF Len(items) = 0 THEN <<>>
    ELSE IF Len(items) = 1 THEN items[1]
    ELSE items[1] \o sep \o Join(sep, Tail(items))

CommaSpace == <<","," ">>

Digits == <<"0","1","2","3","4","5","6","7","8","9">>

RECURSIVE Decimal(_)
\* str(n) for n >= 0
Decimal(n) ==
    IF n < 10 THEN <<Digits[n + 1]>>
    ELSE Decimal(n \div 10) \o <<Digits[(n % 10) + 1]>>

ThreeDigits(n) ==
    <<Digits[(n \div 100) + 1], Digits[((n \div 10) % 10) + 1], Digits[(n % 10) + 1]>>

RECURSIVE Grouped(_)
\* f"{n:,}" for n >= 0
Grouped(n) ==
    IF n < 1000 THEN Decimal(n)
    ELSE Grouped(n \div 1000) \o <<",">> \o ThreeDigits(n % 1000)

\* f"{x:,.2f}" of an amount of x = cents/100, cents >= 0
FormatAmount(cents) ==
    Grouped(cents \div 100) \o <<".">>
        \o <<Digits[((cents \div 10) % 10) + 1], Digits[(cents % 10) + 1]>>

(***************************************************************************)
(* InsuranceClaimsAgent.__init__                                           *)
(***************************************************************************)
f_policyNumber == <<"p","o","l","i","c","y","N","u","m","b","e","r">>

f_policyholderName == <<"p","o","l","i","c","y","h","o","l","d","e","r","N","a","m","e">>

f_incidentDate == <<"i","n","c","i","d","e","n","t","D","a","t","e">>

f_incidentLocation == <<"i","n","c","i","d","e","n","t","L","o","c","a","t","i","o","n">>

f_description == <<"d","e","s","c","r","i","p","t","i","o","n">>

f_claimantName == <<"c","l","a","i","m","a","n","t","N","a","m","e">>

f_assetType == <<"a","s","s","e","t","T","y","p","e">>

f_claimType == <<"c","l","a","i","m","T","y","p","e">>

mandatory_fields ==
    <<f_policyNumber, f_policyholderName, f_incidentDate, f_incidentLocation, f_description,
      f_claimantName, f_assetType, f_claimType>>

kw_fraud == <<"f","r","a","u","d">>

kw_staged == <<"s","t","a","g","e","d">>

kw_inconsistent == <<"i","n","c","o","n","s","i","s","t","e","n","t">>

kw_suspicious == <<"s","u","s","p","i","c","i","o","u","s">>

kw_fake == <<"f","a","k","e">>

fraud_keywords == <<kw_fraud, kw_staged, kw_inconsistent, kw_suspicious, kw_fake>>

(***************************************************************************)
(* validate_fields                                                         *)
(***************************************************************************)
\* A slip: `if <value> is None` in place of `if not <value>`.
CheckField_NoneOnly(missing, value, token) ==
    IF Raises(missing) THEN missing
    ELSE IF Raises(value) THEN value
    ELSE IF value.ret = None THEN Return(Append(missing.ret, token))
    ELSE missing

\* if not <value>: missing.append(token), after the checks that gave `missing`.
\* An exception raised earlier, or by evaluating <value>, leaves the function.
CheckField(missing, value, token) ==
    IF Raises(missing) THEN missing
    ELSE IF Raises(value) THEN value
    ELSE IF ~Truthy(value.ret) THEN Return(Append(missing.ret, token))
    ELSE missing

validate_fields(data) ==
    LET root == Return(data)
        m0 == Return(<<>>)
        m1 == CheckField(m0,
                  Get(Get(root, "policyInformation", EmptyDict), "policyNumber", None),
                  f_policyNumber)
        m2 == CheckField(m1,
                  Get(Get(root, "policyInformation", EmptyDict), "policyholderName", None),
                  f_policyholderName)
        incident == Get(root, "incidentInformation", EmptyDict)
        m3 == CheckField(m2, Get(incident, "date", None), f_incidentDate)
        m4 == CheckField(m3, Get(Get(incident, "location", EmptyDict), "city", None),
                  f_incidentLocation)
        m5 == CheckField(m4, Get(incident, "description", None), f_description)
        m6 == CheckField(m5,
                  Get(Get(Get(root, "involvedParties", EmptyDict), "claimant", EmptyDict),
                      "name", None),
                  f_claimantName)
        m7 == CheckField(m6,
                  Get(Get(root, "assetDetails", EmptyDict), "assetType", None),
                  f_assetType)
        m8 == CheckField(m7,
                  Get(Get(root, "otherMandatoryFields", EmptyDict), "claimType", None),
                  f_claimType)
    IN  m8

(***************************************************************************)
(* route_claim                                                             *)
(***************************************************************************)
fast_track == <<"f","a","s","t","-","t","r","a","c","k">>

manual_review == <<"m","a","n","u","a","l","-","r","e","v","i","e","w">>

specialist_queue == <<"s","p","e","c","i","a","l","i","s","t","-","q","u","e","u","e">>

investigation == <<"i","n","v","e","s","t","i","g","a","t","i","o","n">>

injury == <<"i","n","j","u","r","y">>

FraudReasonPrefix == <<"F","r","a","u","d"," ","i","n","d","i","c","a","t","o","r","s"," ","d","e",
      "t","e","c","t","e","d",":"," ">>

MissingReasonPrefix == <<"M","i","s","s","i","n","g"," ","m","a","n","d","a","t","o","r","y"," ","f",
      "i","e","l","d","s",":"," ">>

InjuryReason == <<"C","l","a","i","m"," ","i","n","v","o","l","v","e","s"," ","i","n","j","u",
      "r","y"," ","-"," ","r","e","q","u","i","r","e","s"," ","s","p","e","c","i",
      "a","l","i","s","t"," ","r","e","v","i","e","w">>

LowDamagePrefix == <<"L","o","w"," ","d","a","m","a","g","e"," ","a","m","o","u","n","t"," ","(",
      "$">>

LowDamageSuffix == <<")"," ","w","i","t","h"," ","a","l","l"," ","r","e","q","u","i","r","e","d",
      " ","f","i","e","l","d","s"," ","p","r","e","s","e","n","t">>

StandardReason ==
    <<"S","t","a","n","d","a","r","d"," ","r","e","v","i","e","w"," ","r","e","q",
      "u","i","r","e","d"," ","-"," ","d","a","m","a","g","e"," ","e","x","c","e",
      "e","d","s"," ","f","a","s","t","-","t","r","a","c","k"," ","t","h","r","e",
      "s","h","o","l","d"," ","o","r"," ","e","s","t","i","m","a","t","e"," ","u",
      "n","a","v","a","i","l","a","b","l","e">>

\* The fast-track threshold of line 179, in the unit of the record's amounts.
FastTrackLimit == 25000

CentsPerUnit == 100

Decision(route, reasoning, missing, fraud_indicators, damage_amount) ==
    Return([recommendedRoute |-> route,
            reasoning        |-> reasoning,
            missingFields    |-> missing,
            fraudIndicators  |-> fraud_indicators,
            estimatedDamage  |-> damage_amount])

\* estimated_damage or initial_estimate or 0
DamageAmount(estimated_damage, initial_estimate) ==
    Or(Or(estimated_damage, initial_estimate), Num(0))

\* A slip: the scan stops at the first keyword found.
FraudIndicators_FirstOnly(text) ==
    LET found == SelectSeq(fraud_keywords, LAMBDA word : Contains(text, word))
    IN  IF Len(found) = 0 THEN found ELSE <<found[1]>>

\* [word for word in self.fraud_keywords if word in description]
FraudIndicators(text) ==
    SelectSeq(fraud_keywords, LAMBDA word : Contains(text, word))

\* A slip: claim_type == 'injury' in place of the substring test.
IsInjury_Equality(claim_type) == claim_type = injury

\* 'injury' in claim_type
IsInjury(claim_type) == Contains(claim_type, injury)

\* A slip: damage_amount <= 25000.
BelowLimit_Inclusive(damage_amount) == damage_amount.v <= FastTrackLimit * CentsPerUnit

\* damage_amount < 25000
BelowLimit(damage_amount) == damage_amount.v < FastTrackLimit * CentsPerUnit

\* A slip: damage_amount < 25000 without the test that an amount is there.
FastTrackEligible_NoAmountTest(damage_amount) == BelowLimit(damage_amount)

\* damage_amount and damage_amount < 25000
FastTrackEligible(damage_amount) == Truthy(damage_amount) /\ BelowLimit(damage_amount)

\* The if/elif chain of lines 170-184, given the values of lines 158-165.
Route(text, claim_type, damage_amount, fraud_indicators, missing) ==
    IF Len(fraud_indicators) > 0
    THEN Decision(investigation,
                  FraudReasonPrefix \o Join(CommaSpace, fraud_indicators),
                  missing, fraud_indicators, damage_amount)
    ELSE IF Len(missing) > 0
    THEN Decision(manual_review,
                  MissingReasonPrefix \o Join(CommaSpace, missing),
                  missing, fraud_indicators, damage_amount)
    ELSE IF IsInjury(claim_type)
    THEN Decision(specialist_queue, InjuryReason,
                  missing, fraud_indicators, damage_amount)
    ELSE IF Truthy(damage_amount) /\ damage_amount.t # "num"
    THEN Raise("TypeError")
    ELSE IF FastTrackEligible(damage_amount)
    THEN Decision(fast_track,
                  LowDamagePrefix \o FormatAmount(damage_amount.v) \o LowDamageSuffix,
                  missing, fraud_indicators, damage_amount)
    ELSE Decision(manual_review, StandardReason,
                  missing, fraud_indicators, damage_amount)

route_claim(data, missing) ==
    LET root == Return(data)
        text ==
            LowerOf(Get(Get(root, "incidentInformation", EmptyDict),
                        "description", Str(<<>>)))
        claim_type ==
            LowerOf(Get(Get(root, "otherMandatoryFields", EmptyDict),
                        "claimType", Str(<<>>)))
        estimated_damage ==
            Get(Get(root, "assetDetails", EmptyDict), "estimatedDamage", None)
        initial_estimate ==
            Get(Get(root, "otherMandatoryFields", EmptyDict), "initialEstimate", None)
    IN  IF Raises(text) THEN text
        ELSE IF Raises(claim_type) THEN claim_type
        ELSE IF Raises(estimated_damage) THEN estimated_damage
        ELSE IF Raises(initial_estimate) THEN initial_estimate
        ELSE Route(text.ret.v, claim_type.ret.v,
                   DamageAmount(estimated_damage.ret, initial_estimate.ret),
                   FraudIndicators(text.ret.v), missing)

(***************************************************************************)
(* The records extract_fields can return: the schema of its prompt, any    *)
(* field or parent mapping null or left out.                               *)
(***************************************************************************)
\* Marks a key the record does not hold (not a Python value).
Absent == [t |-> "absent"]

\* d with d[key] = value, or without key when value is Absent.
Put(d, key, value) ==
    IF value = Absent
    THEN Dict([k \in DOMAIN d.v \ {key} |-> d.v[k]])
    ELSE Dict((key :> value) @@ d.v)

\* The record of the tests' sample_extracted_data fixture, cut to the fields
\* that validate_fields and route_claim read (and the empty thirdParties list).
BasePolicy ==
    Dict([policyNumber     |-> Str(<<"A","U","T","O","-","1","2","3","4","5">>),
          policyholderName |-> Str(<<"J","o","h","n"," ","D","o","e">>)])

BaseLocation == Dict([city |-> Str(<<"L","o","s"," ","A","n","g","e","l","e","s">>)])

BaseDescription == <<"R","e","a","r","-","e","n","d"," ","c","o","l","l","i","s","i","o","n"," ",
      "a","t"," ","i","n","t","e","r","s","e","c","t","i","o","n">>

BaseIncident ==
    Dict([date        |-> Str(<<"0","1","/","1","0","/","2","0","2","5">>),
          location    |-> BaseLocation,
          description |-> Str(BaseDescription)])

BaseClaimant == Dict([name |-> Str(<<"J","o","h","n"," ","D","o","e">>)])

BaseParties == Dict([claimant |-> BaseClaimant, thirdParties |-> List(<<>>)])

BaseAsset ==
    Dict([assetType       |-> Str(<<"v","e","h","i","c","l","e">>),
          estimatedDamage |-> Num(15000 * CentsPerUnit)])

BaseOther ==
    Dict([claimType       |-> Str(<<"a","u","t","o">>),
          initialEstimate |-> Num(15000 * CentsPerUnit)])

MakeRecord(policy, incident, parties, asset, other) ==
    Put(Put(Put(Put(Put(EmptyDict, "policyInformation", policy),
                    "incidentInformation", incident),
                "involvedParties", parties),
            "assetDetails", asset),
        "otherMandatoryFields", other)

\* A parent mapping with one child replaced; a null or left-out parent stays so.
PutIn(parent, key, value) ==
    IF parent.t = "dict" THEN Put(parent, key, value) ELSE parent

\* The eight mandatory leaves, in the order validate_fields checks them.
LeafRecord(leaf) ==
    MakeRecord(
        Put(Put(BasePolicy, "policyNumber", leaf[1]), "policyholderName", leaf[2]),
        Put(Put(Put(BaseIncident, "date", leaf[3]),
                "location", Put(BaseLocation, "city", leaf[4])),
            "description", leaf[5]),
        Put(BaseParties, "claimant", Put(BaseClaimant, "name", leaf[6])),
        Put(BaseAsset, "assetType", leaf[7]),
        Put(BaseOther, "claimType", leaf[8]))

BaseLeaves ==
    <<BasePolicy.v["policyNumber"], BasePolicy.v["policyholderName"],
      BaseIncident.v["date"], BaseLocation.v["city"], BaseIncident.v["description"],
      BaseClaimant.v["name"], BaseAsset.v["assetType"], BaseOther.v["claimType"]>>

Blank == <<" ">>

\* The ways a leaf can be unusable, taken two at a time.
LeafKindPairs ==
    { <<None, Str(<<>>)>>, <<Absent, Str(Blank)>>,
      <<Str(<<>>), Absent>>, <<Str(Blank \o Blank), None>> }

\* Every mandatory leaf either the fixture's value or one of a pair of kinds.
LeafChoices == [1..8 -> 0..2]

ChosenLeaves(choice, pair) ==
    [i \in 1..8 |-> IF choice[i] = 0 THEN BaseLeaves[i] ELSE pair[choice[i]]]

IsLeafRecord(data) ==
    \E choice \in LeafChoices, pair \in LeafKindPairs :
        data = LeafRecord(ChosenLeaves(choice, pair))

\* The parent mappings, in the order: policyInformation, incidentInformation,
\* location, involvedParties, claimant, assetDetails, otherMandatoryFields.
ParentKinds == {"base", "absent", "None"}

Parent(kind, base) ==
    CASE kind = "base"   -> base
      [] kind = "absent" -> Absent
      [] kind = "None"   -> None

SparseRecord(k) ==
    MakeRecord(
        Parent(k[1], BasePolicy),
        PutIn(Parent(k[2], BaseIncident), "location", Parent(k[3], BaseLocation)),
        PutIn(Parent(k[4], BaseParties), "claimant", Parent(k[5], BaseClaimant)),
        Parent(k[6], BaseAsset),
        Parent(k[7], BaseOther))

IsSparseRecord(data) ==
    \E k \in [1..7 -> ParentKinds] : data = SparseRecord(k)

\* Descriptions: up to MaxPieces text pieces, concatenated.
MaxPieces == 2

\* 'FAKE' spelt with the KELVIN SIGN, which str.lower() turns into 'k'.
KelvinFake == <<"F", "A", "U+212A", "E">>

Pieces ==
    { <<"S","t","a","g","e","d"," ">>, <<"f","r","a","u","d">>, <<"F","A","K","E">>, <<" ","s","u","s","p","i","c","i","o","u","s">>, <<"I","n","c","o","n","s","i","s","t","e","n","t">>,
      <<"c","o","l","l","i","s","i","o","n">>, <<"f","a","k">>, <<"e">>, KelvinFake }

RECURSIVE Texts(_)
Texts(n) ==
    IF n = 0 THEN { <<>> }
    ELSE Texts(n - 1) \cup { t \o p : t \in Texts(n - 1), p \in Pieces }

Descriptions == { Str(t) : t \in Texts(MaxPieces) } \cup { None, Absent }

FewDescriptions ==
    { Str(BaseDescription), Str(<<"S","t","a","g","e","d"," ","a","c","c","i","d","e","n","t"," ","w","i","t",
      "h"," ","s","u","s","p","i","c","i","o","u","s"," ","d","e","t","a","i","l",
      "s">>),
      Str(<<"T","h","i","s"," ","l","o","o","k","s"," ","l","i","k","e"," ","f","r","a",
      "u","d"," ","t","o"," ","m","e">>), None }

BodilyInjury == <<"B","o","d","i","l","y"," ","I","N","J","U","R","Y">>

\* 'INJURY' spelt with the dotted capital I, which str.lower() turns into 'i'
\* and a combining dot: no 'injury' in the result.
DottedInjury == <<"U+0130", "N", "J", "U", "R", "Y">>

ClaimTypes ==
    { Str(<<"a","u","t","o">>), Str(injury), Str(BodilyInjury), Str(DottedInjury), Str(<<>>),
      None, Absent }

Amounts ==
    { Absent, None, Num(0), Num(1), Num(8500 * CentsPerUnit),
      Num(FastTrackLimit * CentsPerUnit - 1), Num(FastTrackLimit * CentsPerUnit),
      Num(50000 * CentsPerUnit) }

FewAmounts ==
    { <<Num(15000 * CentsPerUnit), Num(15000 * CentsPerUnit)>>, <<None, None>>,
      <<Num(50000 * CentsPerUnit), Absent>> }

RouteRecord(desc, ctype, estimated_damage, initial_estimate) ==
    MakeRecord(BasePolicy, Put(BaseIncident, "description", desc), BaseParties,
               Put(BaseAsset, "estimatedDamage", estimated_damage),
               Put(Put(BaseOther, "claimType", ctype),
                   "initialEstimate", initial_estimate))

IsRouteRecord(data) ==
    \/ \E d \in Descriptions, c \in ClaimTypes, a \in FewAmounts :
          data = RouteRecord(d, c, a[1], a[2])
    \/ \E d \in FewDescriptions, c \in ClaimTypes, e \in Amounts, i \in Amounts :
          data = RouteRecord(d, c, e, i)

\* The missing-field lists a caller of route_claim passes (the tests pass [],
\* ['policyNumber'] and the like).
MissingLists ==
    { <<>>, <<f_policyNumber>>, <<f_policyNumber, f_claimType>>,
      <<f_claimType, f_claimantName, f_policyNumber>>, <<f_description>> }

(***************************************************************************)
(* BatchProcessor.__init__                                                 *)
(***************************************************************************)
RouteNames == {"fast-track", "manual-review", "investigation", "specialist-queue"}

InitialStats ==
    [total |-> 0, successful |-> 0, failed |-> 0, routes |-> [r \in RouteNames |-> 0]]

NoResult == [unbound |-> TRUE]

NoSummary == [unbound |-> TRUE]

\* A BatchProcessor just constructed, no call made, an empty output directory
\* that exists or not.
NewBatchProcessor ==
    /\ stats = InitialStats
    /\ results = <<>>
    /\ call = 0
    /\ all_files = <<>>
    /\ idx = 0
    /\ result = NoResult
    /\ error = ""
    /\ summary = NoSummary
    /\ output_dir = <<>>
    /\ clock = 0
    /\ bpc = "idle"

(***************************************************************************)
(* The state machine of one claim                                          *)
(***************************************************************************)
\* What print raises when stdout does not take the text: the reader of the
\* pipe is gone (BrokenPipeError), or the encoding of stdout has no code for
\* a character of it (UnicodeEncodeError).
PrintError == "BrokenPipeError"

NoDecision == [unbound |-> TRUE]

\* process_claim after extract_fields returned (line 208), or a direct call of
\* route_claim with a record and a list of the caller's.
Init ==
    /\ NewBatchProcessor
    /\ dir_exists = FALSE
    /\ raised = ""
    /\ routing_info = NoDecision
    /\ \/ /\ entry = "process_claim"
          /\ pc = "validate"
          /\ \/ IsLeafRecord(extracted_data)
             \/ IsSparseRecord(extracted_data)
             \/ IsRouteRecord(extracted_data)
          /\ missing_fields = <<>>
       \/ /\ entry = "route_claim"
          /\ pc = "route"
          /\ \/ IsSparseRecord(extracted_data)
             \/ IsRouteRecord(extracted_data)
          /\ missing_fields \in MissingLists

\* process_claim lines 211-212: the print, which raises when the standard output
\* cannot take the line, then missing_fields = self.validate_fields(extracted_fields)
ValidateFields ==
    /\ pc = "validate"
    /\ \/ /\ raised' = PrintError
          /\ pc' = "raised_print_validate"
          /\ UNCHANGED missing_fields
       \/ LET outcome == validate_fields(extracted_data)
          IN  IF Raises(outcome)
              THEN /\ raised' = outcome.exc
                   /\ pc' = "raised_validate"
                   /\ UNCHANGED missing_fields
              ELSE /\ missing_fields' = outcome.ret
                   /\ pc' = "route"
                   /\ UNCHANGED raised
    /\ UNCHANGED <<entry, extracted_data, routing_info, batch_vars>>

\* process_claim lines 215-229 (the print, route_claim, the result and the last
\* print), or the direct call: route_claim(record, missing_fields)
RouteClaim ==
    /\ pc = "route"
    /\ \/ /\ entry = "process_claim"
          /\ raised' = PrintError
          /\ pc' = "raised_print_route"
          /\ UNCHANGED routing_info
       \/ LET outcome == route_claim(extracted_data, missing_fields)
          IN  IF Raises(outcome)
              THEN /\ raised' = outcome.exc
                   /\ pc' = "raised_route"
                   /\ UNCHANGED routing_info
              ELSE /\ routing_info' = outcome.ret
                   /\ \/ /\ pc' = "done"
                         /\ UNCHANGED raised
                      \/ /\ entry = "process_claim"
                         /\ raised' = PrintError
                         /\ pc' = "raised_print_routed"
    /\ UNCHANGED <<entry, extracted_data, missing_fields, batch_vars>>

Next == ValidateFields \/ RouteClaim

Spec == Init /\ [][Next]_vars

(***************************************************************************)
(* What the claims speak of: the input as the record holds it              *)
(***************************************************************************)
\* The value under parent.key, Absent when the key or the parent is left out.
\* (Under a parent that is no mapping there is no value: see MappingsOf.)
ValueAt(data, parent, key) ==
    IF parent \in DOMAIN data.v /\ data.v[parent].t = "dict"
          /\ key \in DOMAIN data.v[parent].v
    THEN data.v[parent].v[key]
    ELSE Absent

\* The parent mappings named are each a mapping or left out (none is null).
MappingsOf(data, parents) ==
    \A p \in parents : p \in DOMAIN data.v => data.v[p].t = "dict"

RouteParents == {"incidentInformation", "otherMandatoryFields", "assetDetails"}

DescriptionIn(data) == ValueAt(data, "incidentInformation", "description")

ClaimTypeIn(data) == ValueAt(data, "otherMandatoryFields", "claimType")

EstimatedDamageIn(data) == ValueAt(data, "assetDetails", "estimatedDamage")

InitialEstimateIn(data) == ValueAt(data, "otherMandatoryFields", "initialEstimate")

\* The text of a string value, the empty text of a left-out one.
TextOf(value) == IF value.t = "str" THEN value.v ELSE <<>>

HasKeyword(text) ==
    \E i \in 1..Len(fraud_keywords) : Contains(Lower(text), fraud_keywords[i])

\* The description is a string (or left out) and holds no fraud keyword.
NoFraudKeyword(data) ==
    /\ DescriptionIn(data).t \in {"str", "absent"}
    /\ ~HasKeyword(TextOf(DescriptionIn(data)))

\* The claimType is a string (or left out) and does not hold 'injury'.
NoInjury(data) ==
    /\ ClaimTypeIn(data).t \in {"str", "absent"}
    /\ ~Contains(Lower(TextOf(ClaimTypeIn(data))), injury)

\* route_claim was called and has returned a decision (the print after it, in
\* process_claim, may have raised since).
RouteClaimReturned == pc \in {"done", "raised_print_routed"}

\* route_claim was called and has returned or raised.
RouteClaimEnded == RouteClaimReturned \/ pc = "raised_route"

\* validate_fields was called and has returned or raised.
ValidateFieldsEnded ==
    entry = "process_claim" /\ pc \notin {"validate", "raised_print_validate"}

Routes == {fast_track, manual_review, specialist_queue, investigation}

Returned(route) == RouteClaimReturned /\ routing_info.recommendedRoute = route

\* The amount the spec resolves: the first of estimatedDamage, initialEstimate
\* that is present and not null, else 0.
ResolvedDamage(data) ==
    IF EstimatedDamageIn(data).t = "num" THEN EstimatedDamageIn(data).v
    ELSE IF InitialEstimateIn(data).t = "num" THEN InitialEstimateIn(data).v
    ELSE 0

\* The words the no-estimate test looks for in the reasoning.
EstimateUnavailable == <<"e","s","t","i","m","a","t","e"," ","u","n","a","v","a","i","l","a","b","l",
      "e">>

(***************************************************************************)
(* C1. Fraud branch dominates: when the description is a string holding a  *)
(* fraud keyword (in any letter case), route_claim returns the route       *)
(* investigation, whatever the missing-field list, the claimType and the   *)
(* damage amounts are.                                                     *)
(***************************************************************************)
C1_FraudBranchDominates ==
    (/\ RouteClaimEnded
     /\ DescriptionIn(extracted_data).t = "str"
     /\ HasKeyword(DescriptionIn(extracted_data).v))
        => Returned(investigation)

(***************************************************************************)
(* C2. Zero damage: with no fraud keyword, an empty missing-field list, a  *)
(* claimType without 'injury' and estimatedDamage = 0, route_claim returns *)
(* fast-track, whatever initialEstimate is.                                *)
(***************************************************************************)
C2_ZeroDamageFastTrack ==
    (/\ RouteClaimEnded
     /\ MappingsOf(extracted_data, RouteParents)
     /\ NoFraudKeyword(extracted_data)
     /\ missing_fields = <<>>
     /\ NoInjury(extracted_data)
     /\ EstimatedDamageIn(extracted_data) = Num(0))
        => Returned(fast_track)

(***************************************************************************)
(* C3. route_claim is total: for every record (any field or parent mapping *)
(* left out or null) and every missing-field list it raises nothing and    *)
(* returns a decision with one of the four routes.                         *)
(***************************************************************************)
C3_RouteClaimTotal ==
    RouteClaimEnded =>
        /\ RouteClaimReturned
        /\ routing_info.recommendedRoute \in Routes

(***************************************************************************)
(* C4. No estimate: with no fraud keyword, an empty missing-field list, a  *)
(* claimType without 'injury' and both estimatedDamage and initialEstimate *)
(* null, route_claim returns manual-review with a reasoning that holds     *)
(* 'estimate unavailable' (in any letter case).                            *)
(***************************************************************************)
C4_NoEstimateManualReview ==
    (/\ RouteClaimEnded
     /\ MappingsOf(extracted_data, RouteParents)
     /\ NoFraudKeyword(extracted_data)
     /\ missing_fields = <<>>
     /\ NoInjury(extracted_data)
     /\ EstimatedDamageIn(extracted_data) = None
     /\ InitialEstimateIn(extracted_data) = None)
        => /\ Returned(manual_review)
           /\ Contains(Lower(routing_info.reasoning), EstimateUnavailable)

C4_Witness ==
    /\ pc = "done"
    /\ NoFraudKeyword(extracted_data)
    /\ missing_fields = <<>>
    /\ NoInjury(extracted_data)
    /\ EstimatedDamageIn(extracted_data) = None
    /\ InitialEstimateIn(extracted_data) = None
    /\ routing_info.recommendedRoute = manual_review

(***************************************************************************)
(* C5. Damage fallback: the decision's estimatedDamage is estimatedDamage  *)
(* when that is present and not null (0 included), else initialEstimate    *)
(* when that is present and not null (0 included), else 0.                 *)
(***************************************************************************)
C5_DamageFallback ==
    RouteClaimReturned =>
        routing_info.estimatedDamage = Num(ResolvedDamage(extracted_data))

(***************************************************************************)
(* C6. The damage threshold is strict: with no fraud keyword, an empty     *)
(* missing-field list and a claimType without 'injury', a resolved damage  *)
(* amount d with 0 < d < 25000 gives fast-track and every d >= 25000 gives *)
(* manual-review.                                                          *)
(***************************************************************************)
C6_StrictThreshold ==
    (/\ RouteClaimEnded
     /\ MappingsOf(extracted_data, RouteParents)
     /\ NoFraudKeyword(extracted_data)
     /\ missing_fields = <<>>
     /\ NoInjury(extracted_data))
        => LET d == ResolvedDamage(extracted_data)
           IN  /\ (0 < d /\ d < FastTrackLimit * CentsPerUnit) => Returned(fast_track)
               /\ d >= FastTrackLimit * CentsPerUnit => Returned(manual_review)

C6_Witness ==
    /\ pc = "done"
    /\ NoFraudKeyword(extracted_data)
    /\ missing_fields = <<>>
    /\ NoInjury(extracted_data)
    /\ ResolvedDamage(extracted_data) = FastTrackLimit * CentsPerUnit
    /\ routing_info.recommendedRoute = manual_review

(***************************************************************************)
(* C7. Missing-field branch: when the description is a string without a    *)
(* fraud keyword and the missing-field list passed is not empty, the route *)
(* is manual-review, the reasoning names the passed fields comma-joined in *)
(* the order of the list, and missingFields is the passed list, whatever   *)
(* the claimType and the damage amounts are.                               *)
(***************************************************************************)
C7_MissingFieldBranch ==
    (/\ RouteClaimEnded
     /\ DescriptionIn(extracted_data).t = "str"
     /\ ~HasKeyword(DescriptionIn(extracted_data).v)
     /\ missing_fields # <<>>)
        => /\ Returned(manual_review)
           /\ routing_info.reasoning
                = MissingReasonPrefix \o Join(CommaSpace, missing_fields)
           /\ routing_info.missingFields = missing_fields

(***************************************************************************)
(* C8. The injury branch precedes the damage threshold: with no fraud      *)
(* keyword, an empty missing-field list and a claimType holding 'injury'   *)
(* in any letter case, route_claim returns specialist-queue for every      *)
(* damage amount, left-out and null estimates included.                    *)
(***************************************************************************)
C8_InjuryBeforeThreshold ==
    (/\ RouteClaimEnded
     /\ MappingsOf(extracted_data, RouteParents)
     /\ NoFraudKeyword(extracted_data)
     /\ missing_fields = <<>>
     /\ ClaimTypeIn(extracted_data).t = "str"
     /\ Contains(Lower(ClaimTypeIn(extracted_data).v), injury))
        => Returned(specialist_queue)

C8_Witness ==
    /\ pc = "done"
    /\ NoFraudKeyword(extracted_data)
    /\ missing_fields = <<>>
    /\ ClaimTypeIn(extracted_data) = Str(BodilyInjury)
    /\ 0 < ResolvedDamage(extracted_data)
    /\ ResolvedDamage(extracted_data) < FastTrackLimit * CentsPerUnit
    /\ routing_info.recommendedRoute = specialist_queue

(***************************************************************************)
(* The eight mandatory source values, in the order of the checks           *)
(***************************************************************************)
\* The value under parent.child.key, Absent when a key on the way is left out.
ValueAt3(data, parent, child, key) ==
    IF parent \in DOMAIN data.v /\ data.v[parent].t = "dict"
    THEN ValueAt(data.v[parent], child, key)
    ELSE Absent

SourceValues(data) ==
    <<ValueAt(data, "policyInformation", "policyNumber"),
      ValueAt(data, "policyInformation", "policyholderName"),
      ValueAt(data, "incidentInformation", "date"),
      ValueAt3(data, "incidentInformation", "location", "city"),
      ValueAt(data, "incidentInformation", "description"),
      ValueAt3(data, "involvedParties", "claimant", "name"),
      ValueAt(data, "assetDetails", "assetType"),
      ValueAt(data, "otherMandatoryFields", "claimType")>>

ValidateParents ==
    {"policyInformation", "incidentInformation", "involvedParties", "assetDetails",
     "otherMandatoryFields"}

\* Every parent mapping validate_fields reads is a mapping or left out.
ValidateMappings(data) ==
    /\ MappingsOf(data, ValidateParents)
    /\ ValueAt(data, "incidentInformation", "location").t \in {"dict", "absent"}
    /\ ValueAt(data, "involvedParties", "claimant").t \in {"dict", "absent"}

\* Left out, null or the empty string.
IsMissingValue(value) == value = Absent \/ value = None \/ value = Str(<<>>)

\* A string of one or more spaces.
IsBlank(value) ==
    /\ value.t = "str"
    /\ Len(value.v) > 0
    /\ \A i \in 1..Len(value.v) : value.v[i] = " "

\* The tokens of the values that are missing, in the order of the checks.
RECURSIVE TokensFrom(_, _)
TokensFrom(i, values) ==
    IF i > Len(mandatory_fields) THEN <<>>
    ELSE (IF IsMissingValue(values[i]) THEN <<mandatory_fields[i]>> ELSE <<>>)
             \o TokensFrom(i + 1, values)

(***************************************************************************)
(* C9. validate_fields returns one token for each of the 8 mandatory       *)
(* fields whose source value is left out, null or the empty string, and no *)
(* other token, in the fixed order of the checks; a record with all 8      *)
(* values present and not empty gives the empty list.                      *)
(***************************************************************************)
C9_ValidateFieldsTokens ==
    (ValidateFieldsEnded /\ ValidateMappings(extracted_data))
        => /\ pc # "raised_validate"
           /\ missing_fields = TokensFrom(1, SourceValues(extracted_data))

C9_Witness ==
    /\ entry = "process_claim"
    /\ pc = "route"
    /\ SourceValues(extracted_data)[1] = Absent
    /\ SourceValues(extracted_data)[8] = Str(<<>>)
    /\ missing_fields = <<f_policyNumber, f_claimType>>

(***************************************************************************)
(* C10. validate_fields treats a mandatory value of only whitespace like   *)
(* null or the empty string: its token is in the returned list.            *)
(***************************************************************************)
C10_BlankIsMissing ==
    (ValidateFieldsEnded /\ pc # "raised_validate"
        /\ ValidateMappings(extracted_data))
        => \A i \in 1..Len(mandatory_fields) :
               IsBlank(SourceValues(extracted_data)[i])
                   => \E j \in 1..Len(missing_fields) :
                          missing_fields[j] = mandatory_fields[i]

\* The parent mappings above each mandatory value, outermost first, in the
\* order of the checks.
ParentPaths ==
    << <<"policyInformation">>, <<"policyInformation">>, <<"incidentInformation">>,
       <<"incidentInformation", "location">>, <<"incidentInformation">>,
       <<"involvedParties", "claimant">>, <<"assetDetails">>,
       <<"otherMandatoryFields">> >>

\* d[key], Absent when d does not hold key.
Child(d, key) == IF key \in DOMAIN d.v THEN d.v[key] ELSE Absent

\* A parent mapping above the i-th mandatory value is left out or null.
UnderMissingParent(data, i) ==
    LET path == ParentPaths[i]
        top == Child(data, path[1])
    IN  \/ top.t \in {"absent", "None"}
        \/ /\ Len(path) = 2
           /\ top.t = "dict"
           /\ Child(top, path[2]).t \in {"absent", "None"}

(***************************************************************************)
(* C11. validate_fields is total: for every record in which a parent       *)
(* mapping is left out or null it raises nothing, returns a list, and      *)
(* reports every mandatory child of such a parent as missing.              *)
(***************************************************************************)
C11_ValidateFieldsTotal ==
    ValidateFieldsEnded =>
        /\ pc # "raised_validate"
        /\ \A i \in 1..Len(mandatory_fields) :
               UnderMissingParent(extracted_data, i)
                   => \E j \in 1..Len(missing_fields) :
                          missing_fields[j] = mandatory_fields[i]

SuspiciousThenStaged == <<" ","s","u","s","p","i","c","i","o","u","s","S","t","a","g","e","d"," ">>

\* The place of a keyword in the vocabulary, 0 for any other word.
VocabularyIndex(word) ==
    IF \E i \in 1..Len(fraud_keywords) : fraud_keywords[i] = word
    THEN CHOOSE i \in 1..Len(fraud_keywords) : fraud_keywords[i] = word
    ELSE 0

(***************************************************************************)
(* C12. The fraudIndicators of every decision route_claim returns are the  *)
(* keywords of [fraud, staged, inconsistent, suspicious, fake] that occur  *)
(* in the lower-cased description: none that the description lacks, none   *)
(* it holds left out, in vocabulary order and without duplicates, whatever *)
(* the order of the keywords in the text.                                  *)
(***************************************************************************)
C12_FraudIndicatorsExact ==
    RouteClaimReturned =>
        LET text == Lower(TextOf(DescriptionIn(extracted_data)))
            found == routing_info.fraudIndicators
        IN  /\ \A j \in 1..Len(found) :
                   VocabularyIndex(found[j]) > 0 /\ Contains(text, found[j])
            /\ \A i \in 1..Len(fraud_keywords) :
                   Contains(text, fraud_keywords[i])
                       => \E j \in 1..Len(found) : found[j] = fraud_keywords[i]
            /\ \A j \in 1..Len(found) : \A k \in 1..Len(found) :
                   j < k => VocabularyIndex(found[j]) < VocabularyIndex(found[k])

\* 'suspicious' comes before 'Staged' in the text and after it in the result.
C12_Witness ==
    /\ pc = "done"
    /\ DescriptionIn(extracted_data) = Str(SuspiciousThenStaged)
    /\ routing_info.fraudIndicators = <<kw_staged, kw_suspicious>>


(***************************************************************************)
(* process_claim (src/agent.py) as process_directory calls it              *)
(***************************************************************************)
MaxFiles == 2

MaxCalls == 2

MaxClock == 1

\* A call is made while self.stats["total"] and the files of the directory
\* together stay within this.
MaxTotal == 3

PdfReadError == "Error reading PDF"

TxtReadError == "Error reading TXT"

ExtractionError == "Extraction failed"

MakedirsError == "PermissionError"

OpenError == "OSError"

\* The prints of process_claim, by the step they announce; "" for none.
Prints == {"start", "fields", "validate", "route", "routed"}

Staged == <<"S","t","a","g","e","d"," ","a","c","c","i","d","e","n","t"," ","w","i","t",
      "h"," ","s","u","s","p","i","c","i","o","u","s"," ","d","e","t","a","i","l",
      "s">>

PdfSuffix == <<".","p","d","f">>

TxtSuffix == <<".","t","x","t">>

\* s.endswith(suffix)
EndsWith(s, suffix) ==
    /\ Len(suffix) <= Len(s)
    /\ SubSeq(s, Len(s) - Len(suffix) + 1, Len(s)) = suffix

\* What a document turns out to be: a file that cannot be read, a model
\* reply that is no JSON, or the record extract_fields returns.
Unreadable == [kind |-> "unreadable", data |-> None]

NoJson == [kind |-> "no_json", data |-> None]

Fields(data) == [kind |-> "fields", data |-> data]

Settled == <<Num(15000 * CentsPerUnit), Num(15000 * CentsPerUnit)>>

Documents ==
    { Unreadable, NoJson,
      Fields(RouteRecord(Str(BaseDescription), Str(<<"a","u","t","o">>), Settled[1], Settled[2])),
      Fields(RouteRecord(Str(Staged), Str(<<"a","u","t","o">>), Settled[1], Settled[2])),
      Fields(RouteRecord(Str(BaseDescription), None, Settled[1], Settled[2])),
      Fields(MakeRecord(None, BaseIncident, BaseParties, BaseAsset, BaseOther)) }

\* A str written out as one string.
RECURSIVE Text(_)
Text(s) == IF s = <<>> THEN "" ELSE Head(s) \o Text(Tail(s))

TextEach(list) == [i \in 1..Len(list) |-> Text(list[i])]

\* The result dict of process_claim, its strs written out; extractedFields
\* and processedAt, which nothing reads afterwards, are left out.  refused is
\* the first print stdout does not take, "" when it takes them all.
process_claim(file, doc, refused) ==
    IF refused = "start" THEN Raise(PrintError)
    ELSE IF doc.kind = "unreadable"
    THEN Raise(IF EndsWith(file, PdfSuffix) THEN PdfReadError ELSE TxtReadError)
    ELSE IF refused = "fields" THEN Raise(PrintError)
    ELSE IF doc.kind = "no_json" THEN Raise(ExtractionError)
    ELSE IF refused = "validate" THEN Raise(PrintError)
    ELSE LET validated == validate_fields(doc.data) IN
         IF Raises(validated) THEN validated
         ELSE IF refused = "route" THEN Raise(PrintError)
         ELSE LET routed == route_claim(doc.data, validated.ret) IN
              IF Raises(routed) THEN routed
              ELSE IF refused = "routed" THEN Raise(PrintError)
              ELSE Return([documentName     |-> Text(file),
                           missingFields    |-> TextEach(validated.ret),
                           recommendedRoute |-> Text(routed.ret.recommendedRoute),
                           reasoning        |-> Text(routed.ret.reasoning),
                           fraudIndicators  |-> TextEach(routed.ret.fraudIndicators),
                           estimatedDamage  |-> routed.ret.estimatedDamage])

(***************************************************************************)
(* The output directory                                                    *)
(***************************************************************************)
\* claim_<%Y%m%d_%H%M%S>.json and batch_summary_<%Y%m%d_%H%M%S>.json: the
\* name holds the second of the clock and nothing else.
ClaimFile(now) == [kind |-> "claim", at |-> now]

SummaryFile(now) == [kind |-> "batch_summary", at |-> now]

\* What open(name, 'w') leaves when json.dump does not finish: a file made
\* or emptied, with no JSON document in it.
Truncated == [truncated |-> TRUE]

\* open(name, 'w') and json.dump: a file of that name is replaced.
WriteFile(dir, name, content) ==
    [n \in DOMAIN dir \cup {name} |-> IF n = name THEN content ELSE dir[n]]

(***************************************************************************)
(* BatchProcessor.process_directory, one action per step.  Every print can *)
(* raise; outside the try block the exception leaves process_directory.    *)
(***************************************************************************)
\* The names glob gives for a directory of pdfs files matching *.pdf and
\* txts files matching *.txt: the former before the latter.
Enumerated(pdfs, txts) ==
    [i \in 1..(pdfs + txts) |->
        Decimal(i) \o (IF i <= pdfs THEN PdfSuffix ELSE TxtSuffix)]

\* The call, up to the loop: the files are enumerated; with none the call
\* prints a warning and returns; with some it prints the banner.
ProcessDirectory ==
    /\ bpc = "idle"
    /\ call < MaxCalls
    /\ call' = call + 1
    /\ \E pdfs \in 0..MaxFiles : \E txts \in 0..(MaxFiles - pdfs) :
           /\ stats.total + pdfs + txts <= MaxTotal
           /\ all_files' = Enumerated(pdfs, txts)
           /\ \/ /\ bpc' = IF pdfs + txts = 0 THEN "idle" ELSE "loop"
                 /\ idx' = IF pdfs + txts = 0 THEN idx ELSE 1
              \/ /\ bpc' = "raised"
                 /\ idx' = idx
    /\ UNCHANGED <<stats, results, result, error, summary, output_dir, dir_exists,
                   clock, claim_vars>>

\* The head of the loop body (two prints, before the try block), then
\* result = self.agent.process_claim(str(file))
ProcessClaim ==
    /\ bpc = "loop"
    /\ \/ /\ bpc' = "raised"
          /\ UNCHANGED <<result, error>>
       \/ \E doc \in Documents, refused \in Prints \cup {""} :
              LET outcome == process_claim(all_files[idx], doc, refused) IN
              IF Raises(outcome)
              THEN error' = outcome.exc /\ bpc' = "except" /\ UNCHANGED result
              ELSE result' = outcome.ret /\ bpc' = "save" /\ UNCHANGED error
    /\ UNCHANGED <<stats, results, call, all_files, idx, summary, output_dir,
                   dir_exists, clock, claim_vars>>

\* self.agent.save_result(result, output_dir): makedirs, open of the file
\* named by the clock's second, json.dump, print; each of them can fail.
SaveResult ==
    /\ bpc = "save"
    /\ \/ /\ ~dir_exists
          /\ error' = MakedirsError
          /\ bpc' = "except"
          /\ UNCHANGED <<dir_exists, output_dir>>
       \/ /\ dir_exists' = TRUE
          /\ error' = OpenError
          /\ bpc' = "except"
          /\ UNCHANGED output_dir
       \/ /\ dir_exists' = TRUE
          /\ output_dir' = WriteFile(output_dir, ClaimFile(clock), Truncated)
          /\ error' = OpenError
          /\ bpc' = "except"
       \/ /\ dir_exists' = TRUE
          /\ output_dir' = WriteFile(output_dir, ClaimFile(clock), result)
          /\ error' = PrintError
          /\ bpc' = "except"
       \/ /\ dir_exists' = TRUE
          /\ output_dir' = WriteFile(output_dir, ClaimFile(clock), result)
          /\ bpc' = "track"
          /\ UNCHANGED error
    /\ UNCHANGED <<stats, results, call, all_files, idx, result, summary, clock,
                   claim_vars>>

\* Where the loop goes after the file at place i.
NextFile(i) ==
    /\ idx' = i + 1
    /\ bpc' = IF i < Len(all_files) THEN "loop" ELSE "summary"

\* A slip: = 1 for += 1.
Tally_Overwrite(routes, route) ==
    [r \in DOMAIN routes |-> IF r = route THEN 1 ELSE routes[r]]

\* self.stats["routes"][route] += 1
Tally(routes, route) ==
    [r \in DOMAIN routes |-> IF r = route THEN routes[r] + 1 ELSE routes[r]]

SuccessEntry(file, route) ==
    [filename |-> Text(file), route |-> Str(route), status |-> "success"]

FailedEntry(file, message) ==
    [filename |-> Text(file), route |-> None, status |-> "failed", error |-> message]

\* The rest of the try block: the counters, the tally, the entry, a print.
\* When the print raises, the except clause runs for the file just counted.
TrackStatistics ==
    /\ bpc = "track"
    /\ stats' = [total      |-> stats.total + 1,
                 successful |-> stats.successful + 1,
                 failed     |-> stats.failed,
                 routes     |-> Tally(stats.routes, result.recommendedRoute)]
    /\ results' = Append(results, SuccessEntry(all_files[idx], result.recommendedRoute))
    /\ \/ /\ NextFile(idx)
          /\ UNCHANGED error
       \/ /\ error' = PrintError
          /\ bpc' = "except"
          /\ UNCHANGED idx
    /\ UNCHANGED <<call, all_files, result, summary, output_dir, dir_exists, clock,
                   claim_vars>>

\* except Exception as e: the counters, the entry, a print; e is unbound
\* after it.  When the print raises, the exception leaves process_directory.
RecordFailure ==
    /\ bpc = "except"
    /\ stats' = [total      |-> stats.total + 1,
                 successful |-> stats.successful,
                 failed     |-> stats.failed + 1,
                 routes     |-> stats.routes]
    /\ results' = Append(results, FailedEntry(all_files[idx], error))
    /\ error' = ""
    /\ \/ NextFile(idx)
       \/ /\ bpc' = "raised"
          /\ UNCHANGED idx
    /\ UNCHANGED <<call, all_files, result, summary, output_dir, dir_exists, clock,
                   claim_vars>>

\* self._generate_summary_report(output_dir): the summary is built, the file
\* named by the clock's second is opened and written, the summary and the
\* chart are printed.  open fails when the directory was never made, or for
\* the disk's reasons; json.dump and the prints can fail after it; each
\* exception leaves process_directory.
GenerateSummaryReport ==
    /\ bpc = "summary"
    /\ summary' = [statistics |-> stats, results |-> results]
    /\ \/ /\ bpc' = "raised"
          /\ UNCHANGED output_dir
       \/ /\ dir_exists
          /\ output_dir' = WriteFile(output_dir, SummaryFile(clock), Truncated)
          /\ bpc' = "raised"
       \/ /\ dir_exists
          /\ output_dir' = WriteFile(output_dir, SummaryFile(clock), summary')
          /\ bpc' \in {"idle", "raised"}
    /\ UNCHANGED <<stats, results, call, all_files, idx, result, error, dir_exists,
                   clock, claim_vars>>

\* datetime.now() is the local time: it moves on by itself, and back when the
\* clock is set or the zone's offset changes.  It is read by save_result and
\* by _generate_summary_report only.
Tick ==
    /\ bpc \in {"save", "summary"}
    /\ clock' \in (0..MaxClock) \ {clock}
    /\ UNCHANGED <<stats, results, call, all_files, idx, result, error, summary,
                   output_dir, dir_exists, bpc, claim_vars>>

BatchInit ==
    /\ NewBatchProcessor
    /\ dir_exists \in BOOLEAN
    /\ entry = "process_directory"
    /\ extracted_data = None
    /\ missing_fields = <<>>
    /\ routing_info = NoDecision
    /\ raised = ""
    /\ pc = "batch"

BatchNext ==
    \/ ProcessDirectory
    \/ ProcessClaim
    \/ SaveResult
    \/ TrackStatistics
    \/ RecordFailure
    \/ GenerateSummaryReport
    \/ Tick

\* A call that has started runs on: the interpreter takes the next step.
Step ==
    \/ ProcessClaim
    \/ SaveResult
    \/ TrackStatistics
    \/ RecordFailure
    \/ GenerateSummaryReport

BatchSpec == BatchInit /\ [][BatchNext]_vars /\ WF_vars(Step)

(***************************************************************************)
(* The batch claims                                                        *)
(***************************************************************************)
\* process_directory is not in a call, and returned from one.
Finished == bpc = "idle" /\ call > 0

ClaimFiles == { n \in DOMAIN output_dir : n.kind = "claim" }

SummaryFiles == { n \in DOMAIN output_dir : n.kind = "batch_summary" }

Entries(status) == { i \in 1..Len(results) : results[i].status = status }

\* C13: after process_directory finishes, the number of distinct claim result
\* files save_result wrote equals statistics.successful, whatever the timing of
\* the saves, and every claim result file holds the result of a document
\* recorded as a success; stated for the runs in which no document failed.
C13_OneResultPerSuccess ==
    (Finished /\ stats.failed = 0) =>
        /\ Cardinality(ClaimFiles) = stats.successful
        /\ \A n \in ClaimFiles :
               \E i \in Entries("success") :
                   results[i].filename = output_dir[n].documentName

\* process_directory is in its loop.
InLoop == bpc \in {"loop", "save", "track", "except"}

\* The entries the current call has added: the last idx - 1 of results.
EntryOfFile(k) == results[Len(results) - (idx - 1) + k]

InEnumerationOrder ==
    (InLoop \/ bpc = "summary") =>
        /\ idx \in 1..(Len(all_files) + 1)
        /\ Len(results) >= idx - 1
        /\ \A k \in 1..(idx - 1) : EntryOfFile(k).filename = Text(all_files[k])

AllProcessed == bpc = "summary" => idx = Len(all_files) + 1

\* A step changes results only by adding the one entry of the file the loop
\* is at, and then moves to the next file; the loop moves on in no other way.
OneEntryPerFile ==
    /\ results' # results =>
           /\ InLoop
           /\ Len(results') = Len(results) + 1
           /\ SubSeq(results', 1, Len(results)) = results
           /\ results'[Len(results')].filename = Text(all_files[idx])
           /\ idx' = idx + 1
    /\ (InLoop /\ idx' # idx) => results' # results

\* A failure the except clause caught does not stop the loop.
FailureIsolated == bpc = "except" => bpc' \in {"loop", "summary"}

\* C14: a failure of any step for one document never stops the loop of
\* process_directory: every enumerated file is processed exactly once, in
\* enumeration order, and adds exactly one entry to results in that order, and
\* the loop always reaches summary generation.
C14_FailureIsolation ==
    /\ [](InEnumerationOrder /\ AllProcessed)
    /\ [][OneEntryPerFile /\ FailureIsolated]_vars
    /\ (InLoop ~> bpc = "summary")

LastEntry(list) == list[Len(list)]

\* The shape of an entry of results, by its status.
EntryShapes ==
    \A i \in 1..Len(results) :
        LET e == results[i] IN
        /\ e.status \in {"success", "failed"}
        /\ e.status = "failed" => e.route = None /\ "error" \in DOMAIN e
        /\ e.status = "success" =>
               /\ e.route.t = "str"
               /\ e.route.v \in RouteNames
               /\ "error" \notin DOMAIN e

\* What a step does to the counters: a step that fails adds nothing, the
\* failure caught is recorded as one, and a success entry comes with exactly
\* 1 on its route's tally.
AllOrNothing ==
    /\ (bpc # "except" /\ bpc' = "except") => UNCHANGED <<stats, results>>
    /\ bpc = "except" => results' # results /\ LastEntry(results').status = "failed"
    /\ results' # results =>
           LET e == LastEntry(results') IN
           /\ e.status = "failed" =>
                  /\ stats'.successful = stats.successful
                  /\ stats'.routes = stats.routes
           /\ e.status = "success" =>
                  /\ stats'.successful = stats.successful + 1
                  /\ \A r \in RouteNames :
                         stats'.routes[r] = stats.routes[r] + (IF r = e.route.v THEN 1 ELSE 0)
    /\ results' = results => UNCHANGED stats

\* C15: a document whose pipeline fails at any step, the persist step after
\* the route was computed included, is recorded with status failed, route null
\* and an error string, and adds nothing to a route tally or to successful; a
\* document recorded with status success has a route among the four names, no
\* error field, and added exactly 1 to that route's tally.
C15_AllOrNothing ==
    /\ []EntryShapes
    /\ [][AllOrNothing]_vars

LoopBoundary == bpc \in {"idle", "loop", "summary", "raised"}

TallySum(routes) ==
    routes["fast-track"] + routes["manual-review"] + routes["investigation"]
        + routes["specialist-queue"]

\* The counters s agree with each other and with the entries r.
Consistent(s, r) ==
    /\ s.total = s.successful + s.failed
    /\ s.total = Len(r)
    /\ DOMAIN s.routes = RouteNames
    /\ TallySum(s.routes) = s.successful
    /\ s.successful = Cardinality({ i \in 1..Len(r) : r[i].status = "success" })

CountersAgree ==
    /\ LoopBoundary => Consistent(stats, results)
    /\ \A n \in SummaryFiles :
           output_dir[n] # Truncated
               => Consistent(output_dir[n].statistics, output_dir[n].results)

NoCounterDecreases ==
    /\ stats'.total >= stats.total
    /\ stats'.successful >= stats.successful
    /\ stats'.failed >= stats.failed
    /\ \A r \in RouteNames : stats'.routes[r] >= stats.routes[r]

\* C16: at every loop boundary of process_directory and in the written
\* summary, total = successful + failed = the length of results, the sum of
\* the four route tallies = successful = the number of success entries, the
\* routes mapping has exactly the four route keys, and no counter decreases.
C16_CounterInvariant ==
    /\ []CountersAgree
    /\ [][NoCounterDecreases]_vars

\* The summary of a second call is written: three documents counted, two
\* successes on two routes and a failure.
C16_Witness ==
    /\ Finished
    /\ call = 2
    /\ stats.total = 3
    /\ stats.failed = 1
    /\ stats.routes["fast-track"] = 1
    /\ stats.routes["investigation"] = 1
    /\ \E n \in SummaryFiles : output_dir[n].statistics = stats

\* The summary the call that just returned wrote is about the files that
\* call enumerated; stated for the runs in which no document failed.
SummaryOfThisCall ==
    (Finished /\ all_files # <<>> /\ stats.failed = 0) =>
        /\ summary.statistics.total = Len(all_files)
        /\ Len(summary.results) = Len(all_files)
        /\ \A k \in 1..Len(all_files) : summary.results[k].filename = Text(all_files[k])

\* A call that finds no file changes nothing and writes nothing.
EmptyCallIsSilent ==
    (bpc = "idle" /\ call' # call /\ all_files' = <<>>) =>
        UNCHANGED <<stats, results, summary, output_dir>>

\* C17: the summary a process_directory call produces describes that run only:
\* its statistics.total is the number of files the call enumerated and its
\* results are that call's documents, also on a BatchProcessor that was called
\* before; a call that finds no file leaves statistics and results as they were
\* and writes no summary.
C17_SummaryOfOneRun ==
    /\ []SummaryOfThisCall
    /\ [][EmptyCallIsSilent]_vars
====
